---- MODULE Spec2Model ----
(***************************************************************************)
(* Model of generator/day_unique_id.go: the per-day number-segment cache   *)
(* RangeUsageInfoStruct, its callers (goroutines running                   *)
(* GenerateIdWithAppendPrefix), the external sequence authority            *)
(* (reqNumbersCaller) and the two suffix generators GenerateKey / randId.  *)
(*                                                                         *)
(* Strings are sequences of byte values.  A time.Time is the index of a    *)
(* calendar day: 0 is the zero value (0001-01-01), i >= 1 is the i-th day  *)
(* of the model's calendar, whose months have MonthLen days.               *)
(*                                                                         *)
(* The unsynchronised reads of lines 109, 124 and 146 are separate steps,  *)
(* and so are the three field writes of replaceRange, so that a reader     *)
(* without the lock sees every intermediate state a writer produces.       *)
(***************************************************************************)
EXTENDS Integers, Sequences, FiniteSets, TLC

\* ---------------------------------------------------------------- bounds
NumThreads == 3          \* goroutines calling GenerateId while the date stays fixed
DayThreads == 2          \* goroutines calling GenerateId while the clock advances
MaxClock == 3            \* calendar days the clock runs through
MonthLen == 2            \* days per month of the model's calendar
MaxGrants == 3           \* ranges the authority grants before it only fails
MaxCalls == 5            \* calls of GenerateId made in one run
\* The source constants constIncrementStep = 10000 and LeastAvailableIdNum = 50
\* are scaled down so that segments are exhausted within the bounds; the code
\* only needs 0 < least < step. Two scalings are explored.
SmallStep == 2
SmallLeast == 1
WideStep == 3
WideLeast == 2

\* A run is one of two scenarios: many goroutines on one date with the small
\* scaling, or fewer goroutines across day changes with the wide scaling.
Scenarios ==
    { [workers |-> NumThreads, days |-> 1, step |-> SmallStep, least |-> SmallLeast,
       calls |-> MaxCalls],
      [workers |-> DayThreads, days |-> MaxClock, step |-> WideStep, least |-> WideLeast,
       calls |-> MaxCalls] }

\* The scenario of the runs checked for termination: the clock advances and
\* LiveCalls calls are made.
LiveCalls == 3
LiveDays == 2
LiveScenarios ==
    { [workers |-> DayThreads, days |-> LiveDays, step |-> SmallStep, least |-> SmallLeast,
       calls |-> LiveCalls] }

MaxThreads == IF NumThreads > DayThreads THEN NumThreads ELSE DayThreads
Threads == 1..MaxThreads
NoThread == 0
ZeroTime == 0

\* ------------------------------------------------------------ time.Time
\* time.Time.Day(): the day of the month. The zero Time is January 1, year 1.
Day(t) == IF t = ZeroTime THEN 1 ELSE 1 + ((t - 1) % MonthLen)

\* ------------------------------------------------------------- strings
ChA == 65
ChY == 89
ChMinus == 45
Ch0 == 48

RECURSIVE DecDigits(_)
\* the decimal digits of n >= 0, most significant first, as bytes
DecDigits(n) == IF n < 10 THEN <<Ch0 + n>> ELSE Append(DecDigits(n \div 10), Ch0 + (n % 10))

RECURSIVE ZeroPad(_, _)
ZeroPad(s, w) == IF Len(s) >= w THEN s ELSE ZeroPad(<<Ch0>> \o s, w)

\* a pad of width five
Sprintf05d(id) ==
    IF id < 0 THEN <<ChMinus>> \o ZeroPad(DecDigits(0 - id), 4)
    ELSE ZeroPad(DecDigits(id), 5)
\* fmt.Sprintf("%06d", id): the sign counts in the width
Sprintf06d(id) ==
    IF id < 0 THEN <<ChMinus>> \o ZeroPad(DecDigits(0 - id), 5)
    ELSE ZeroPad(DecDigits(id), 6)

\* a table that maps '9' to the marker letter
KeyMapLettersWithMarker == <<65, 67, 69, 70, 72, 78, 81, 82, 83, 89>>
KeyMapLetters == <<65, 67, 69, 70, 72, 78, 81, 82, 83, 85>>
\* keyMap: '0'..'9' -> A C E F H N Q R S U
keyMap == [ch \in Ch0..(Ch0 + 9) |-> KeyMapLetters[ch - Ch0 + 1]]

NoSuffix == <<>>
\* the loop of GenerateKey: <<ok, suffix>>; it stops at the first character
\* keyMap has no entry for, and otherwise maps every character
MapKey(s) ==
    IF \E i \in 1..Len(s) : s[i] \notin DOMAIN keyMap THEN <<FALSE, <<>>>>
    ELSE <<TRUE, [i \in 1..Len(s) |-> keyMap[s[i]]]>>

\* GenerateKey: the result of a call, (string, error). kind "seg" is a
\* segment-derived identifier; the identifier is prefix-date-suffix, of which
\* the model keeps the date and the suffix.
GenerateKey(currentId, todayFormat) ==
    LET r == MapKey(Sprintf06d(currentId)) IN
    IF r[1] THEN [err |-> FALSE, kind |-> "seg", day |-> todayFormat, suffix |-> r[2]]
    ELSE [err |-> TRUE, kind |-> "err", day |-> ZeroTime, suffix |-> NoSuffix]

RECURSIVE Base26(_)
\* the loop "for ; num > 0; num = num / 26", least significant letter first
Base26(num) == IF num <= 0 THEN <<>> ELSE <<ChA + (num % 26)>> \o Base26(num \div 26)

RECURSIVE PadA(_, _)
PadA(s, w) == IF Len(s) >= w THEN s ELSE PadA(Append(s, ChA), w)

RECURSIVE HostLetters(_, _)
\* the first three characters of hostKey, each shifted by 17 and cut to a byte
HostLetters(hostKey, k) ==
    IF hostKey = <<>> \/ k = 3 THEN <<>>
    ELSE <<(Head(hostKey) + 17) % 256>> \o HostLetters(Tail(hostKey), k + 1)

Marker == ChY
randId(num, hostKey) ==
    LET hl == HostLetters(hostKey, 0)
        pad == PadA(<<>>, 3 - Len(hostKey))
    IN <<Marker>> \o hl \o pad \o PadA(Base26(num), 8)

RandResult(num, hostKey, todayFormat) ==
    [err |-> FALSE, kind |-> "rand", day |-> todayFormat, suffix |-> randId(num, hostKey)]

NoResult == [err |-> FALSE, kind |-> "none", day |-> ZeroTime, suffix |-> NoSuffix]

\* --------------------------------------------------------------- state
VARIABLES
    currentMaxId,            \* usage.currentMaxId: the last integer handed out
    currentRangeEnd,         \* usage.currentRangeEnd: inclusive end of the segment
    applyDate,               \* usage.applyDate
    usageM,                  \* usage.usageM: the goroutine holding the mutex, or NoThread
    gettingIdRangeCounter,   \* usage.gettingIdRangeCounter
    hostKey,                 \* usage.hostKey, set by New
    now,                     \* the wall clock (time.Now), a calendar day
    nextStart,               \* the authority: per day, the first integer not yet granted
    grants,                  \* the authority: ranges granted so far
    calls,                   \* calls of GenerateId started so far
    scenario,                \* the scenario of this run, fixed by Init
    pc,                      \* per goroutine: its position in GenerateIdWithAppendPrefix
    currentTime,             \* per goroutine: local currentTime
    currentId,               \* per goroutine: local currentId
    tmp,                     \* per goroutine: the left operand read at line 124
    reqStep,                 \* per goroutine: req.Step
    curCounter,              \* per goroutine: curCounter of getNewIdRange
    bUseOnce,                \* per goroutine: bUseOnce
    resp,                    \* per goroutine: the authority's answer
    branch,                  \* per goroutine: how the call got or will get its integer
    servedFrom,              \* per goroutine, history: applyDate when it got its integer
    gotOver,                 \* per goroutine, history: the integer it obtained from the
                             \* cached segment was 0 or above the bound at that moment
    lowCap,                  \* per goroutine, history: it asked for a renewal when the
                             \* segment of its date was nearly used up but not used up
    returned,                \* history: the call that returned last
    issued,                  \* history: the segment-derived identifiers returned so
                             \* far, as pairs of date and suffix
    fastLog,                 \* history: what incrementAndGet returned since replaceRange
                             \* last wrote the cursor, and the cursor it left
    probe                    \* inputs and outputs of the pure functions (SpecFn)

cache == <<currentMaxId, currentRangeEnd, applyDate>>
shared == <<currentMaxId, currentRangeEnd, applyDate, usageM, gettingIdRangeCounter>>
authority == <<nextStart, grants>>
env == <<hostKey, scenario, probe>>
locals == <<currentTime, currentId, tmp, reqStep, curCounter, bUseOnce, resp, branch,
            servedFrom, lowCap, gotOver>>
vars == <<currentMaxId, currentRangeEnd, applyDate, usageM, gettingIdRangeCounter,
          hostKey, now, nextStart, grants, calls, scenario, pc, currentTime, currentId,
          tmp, reqStep, curCounter, bUseOnce, resp, branch, servedFrom, lowCap,
          gotOver, returned, issued, fastLog, probe>>

constIncrementStep == scenario.step
LeastAvailableIdNum == scenario.least

NoResp == [err |-> FALSE, RangeStart |-> 0, RangeEnd |-> 0]
NoProbe == [id |-> 0, num |-> 0, host |-> <<>>, enc |-> NoResult, rnd |-> NoSuffix,
            done |-> FALSE]
NoReturn == [by |-> NoThread, result |-> NoResult, id |-> 0, authErr |-> FALSE,
             once |-> FALSE, branch |-> "none", day |-> ZeroTime, seg |-> ZeroTime,
             cap |-> FALSE, over |-> FALSE, dup |-> FALSE]
NoLog == [base |-> 0, got |-> <<>>]

\* the host keys GetHostKey can return: none, or the last octet of an address
HostKeys == {<<>>, <<55>>, <<49, 50>>, <<50, 53, 53>>}
\* the host key of the instance under test
MainHostKeys == {<<55>>}
\* values of rander.Intn(10000000000) the calls draw
RandNums == {27}

LocalsInit ==
    /\ currentTime = [t \in Threads |-> ZeroTime]
    /\ currentId = [t \in Threads |-> 0]
    /\ tmp = [t \in Threads |-> 0]
    /\ reqStep = [t \in Threads |-> 0]
    /\ curCounter = [t \in Threads |-> 0]
    /\ bUseOnce = [t \in Threads |-> FALSE]
    /\ resp = [t \in Threads |-> NoResp]
    /\ branch = [t \in Threads |-> "none"]
    /\ servedFrom = [t \in Threads |-> ZeroTime]
    /\ lowCap = [t \in Threads |-> FALSE]
    /\ gotOver = [t \in Threads |-> FALSE]

\* New: every field of the struct not named is its zero value
New ==
    /\ currentMaxId = 0
    /\ currentRangeEnd = 0
    /\ applyDate = ZeroTime
    /\ usageM = NoThread
    /\ gettingIdRangeCounter = 0
    /\ hostKey \in MainHostKeys

Init ==
    /\ New
    /\ scenario \in Scenarios
    /\ now = 1
    /\ nextStart = [d \in 1..MaxClock |-> 1]
    /\ grants = 0
    /\ calls = 0
    /\ pc = [t \in Threads |-> "idle"]
    /\ LocalsInit
    /\ returned = NoReturn
    /\ issued = {}
    /\ fastLog = NoLog
    /\ probe = NoProbe

\* ------------------------------------------------------------- the clock
Tick ==
    /\ now < scenario.days
    /\ now' = now + 1
    /\ UNCHANGED <<shared, env, authority, calls, pc, locals, returned, issued, fastLog>>

\* ------------------------------------------- GenerateIdWithAppendPrefix
\* lines 91-100: currentTime := time.Now(); req.Step = constIncrementStep
Start(t) ==
    /\ pc[t] = "idle"
    /\ t <= scenario.workers
    /\ calls < scenario.calls
    /\ calls' = calls + 1
    /\ currentTime' = [currentTime EXCEPT ![t] = now]
    /\ reqStep' = [reqStep EXCEPT ![t] = constIncrementStep]
    /\ pc' = [pc EXCEPT ![t] = "l109"]
    /\ UNCHANGED <<shared, env, now, authority, currentId, tmp, curCounter, bUseOnce,
                   resp, branch, servedFrom, lowCap, gotOver, returned, issued,
                   fastLog>>

\* line 109: currentTime.Day() != usage.applyDate.Day(), read without the lock
CheckDay(t) ==
    /\ pc[t] = "l109"
    /\ IF Day(currentTime[t]) # Day(applyDate)
       THEN /\ pc' = [pc EXCEPT ![t] = "get"]
            /\ branch' = [branch EXCEPT ![t] = "day"]
       ELSE /\ pc' = [pc EXCEPT ![t] = "l124"]
            /\ branch' = branch
    /\ UNCHANGED <<shared, env, now, authority, calls, currentTime, currentId, tmp,
                   reqStep, curCounter, bUseOnce, resp, servedFrom, lowCap, gotOver, returned, issued,
                   fastLog>>

\* line 124, left operand: usage.currentMaxId, read without the lock
ReadMaxId(t) ==
    /\ pc[t] = "l124"
    /\ tmp' = [tmp EXCEPT ![t] = currentMaxId]
    /\ pc' = [pc EXCEPT ![t] = "l124b"]
    /\ UNCHANGED <<shared, env, now, authority, calls, currentTime, currentId, reqStep,
                   curCounter, bUseOnce, resp, branch, servedFrom, lowCap, gotOver, returned, issued,
                   fastLog>>

\* a test that waits until the segment is used up
UsedUpOnly(maxId, rangeEnd) == maxId >= rangeEnd
\* line 124, right operand (read without the lock) and the comparison
NearlyUsedUp(maxId, rangeEnd) == maxId + LeastAvailableIdNum > rangeEnd
CheckLeast(t) ==
    /\ pc[t] = "l124b"
    /\ IF NearlyUsedUp(tmp[t], currentRangeEnd)
       THEN /\ pc' = [pc EXCEPT ![t] = "get"]
            /\ branch' = [branch EXCEPT ![t] = "low"]
            /\ lowCap' = [lowCap EXCEPT ![t] =
                              /\ applyDate = currentTime[t]
                              /\ currentMaxId < currentRangeEnd
                              /\ NearlyUsedUp(currentMaxId, currentRangeEnd)]
       ELSE /\ pc' = [pc EXCEPT ![t] = "inc"]
            /\ branch' = [branch EXCEPT ![t] = "fast"]
            /\ lowCap' = lowCap
    /\ tmp' = [tmp EXCEPT ![t] = 0]
    /\ UNCHANGED <<shared, env, now, authority, calls, currentTime, currentId, reqStep,
                   curCounter, bUseOnce, resp, servedFrom, gotOver, returned, issued, fastLog>>

\* -------------------------------------------------------- getNewIdRange
\* line 294: more than two attempts admitted: ask for a single number
UseOnceThreshold == 2
\* a threshold off by one
IsUseOnceLate(counter) == counter > UseOnceThreshold + 1
IsUseOnce(counter) == counter > UseOnceThreshold

\* lines 290-298: the atomic add, then the downgrade to a single-use request
EnterGetNewIdRange(t) ==
    /\ pc[t] = "get"
    /\ gettingIdRangeCounter' = gettingIdRangeCounter + 1
    /\ curCounter' = [curCounter EXCEPT ![t] = gettingIdRangeCounter + 1]
    /\ bUseOnce' = [bUseOnce EXCEPT ![t] = IsUseOnce(gettingIdRangeCounter + 1)]
    /\ reqStep' = [reqStep EXCEPT ![t] =
                      IF IsUseOnce(gettingIdRangeCounter + 1) THEN 1 ELSE reqStep[t]]
    /\ pc' = [pc EXCEPT ![t] = "call"]
    /\ UNCHANGED <<cache, usageM, env, now, authority, calls, currentTime, currentId,
                   tmp, resp, branch, servedFrom, lowCap, gotOver, returned, issued,
                   fastLog>>

\* line 301, the authority grants: the next req.Step integers of req.Day, never
\* granted before for that day
AuthorityGrants(t) ==
    /\ pc[t] = "call"
    /\ grants < MaxGrants
    /\ LET d == currentTime[t]
           s == nextStart[d]
       IN /\ resp' = [resp EXCEPT ![t] = [err |-> FALSE, RangeStart |-> s,
                                          RangeEnd |-> s + reqStep[t] - 1]]
          /\ nextStart' = [nextStart EXCEPT ![d] = s + reqStep[t]]
    /\ grants' = grants + 1
    /\ pc' = [pc EXCEPT ![t] = "defer"]
    /\ UNCHANGED <<shared, env, now, calls, currentTime, currentId, tmp, reqStep,
                   curCounter, bUseOnce, branch, servedFrom, lowCap, gotOver, returned, issued,
                   fastLog>>

\* line 301, the authority call fails
AuthorityFails(t) ==
    /\ pc[t] = "call"
    /\ resp' = [resp EXCEPT ![t] = [err |-> TRUE, RangeStart |-> 0, RangeEnd |-> 0]]
    /\ pc' = [pc EXCEPT ![t] = "defer"]
    /\ UNCHANGED <<shared, env, now, authority, calls, currentTime, currentId, tmp,
                   reqStep, curCounter, bUseOnce, branch, servedFrom, lowCap, gotOver, returned, issued,
                   fastLog>>

\* an integer that is 0 or above the bound rangeEnd
IsOver(id, rangeEnd) == id = 0 \/ id > rangeEnd

\* the cached segment is of date day and has integers left
HasCapacity(day) == applyDate = day /\ currentMaxId < currentRangeEnd

\* The return of GenerateIdWithAppendPrefix: result is what the caller gets,
\* id the integer it was made from; the goroutine is in no call again and the
\* locals of the call are gone.
Return(t, result, id, how) ==
    /\ LET r == result
           key == <<r.day, r.suffix>>
       IN /\ returned' = [by |-> t, result |-> r, id |-> id, authErr |-> resp[t].err,
                          once |-> bUseOnce[t], branch |-> how, day |-> currentTime[t],
                          seg |-> servedFrom[t],
                          cap |-> lowCap[t] /\ HasCapacity(currentTime[t]),
                          over |-> gotOver[t],
                          dup |-> r.kind = "seg" /\ key \in issued]
          /\ issued' = IF r.kind = "seg" THEN issued \cup {key} ELSE issued
    /\ pc' = [pc EXCEPT ![t] = "idle"]
    /\ currentTime' = [currentTime EXCEPT ![t] = ZeroTime]
    /\ currentId' = [currentId EXCEPT ![t] = 0]
    /\ reqStep' = [reqStep EXCEPT ![t] = 0]
    /\ curCounter' = [curCounter EXCEPT ![t] = 0]
    /\ bUseOnce' = [bUseOnce EXCEPT ![t] = FALSE]
    /\ resp' = [resp EXCEPT ![t] = NoResp]
    /\ branch' = [branch EXCEPT ![t] = "none"]
    /\ servedFrom' = [servedFrom EXCEPT ![t] = ZeroTime]
    /\ lowCap' = [lowCap EXCEPT ![t] = FALSE]
    /\ gotOver' = [gotOver EXCEPT ![t] = FALSE]

\* a failed call that hands its empty answer to replaceRange
FailedCallInstalls == "rep"
\* a failed call that goes on to incrementAndGet
FailedCallServesCached == "inc"
\* lines 112-114 / 128-130: a failed authority call is logged and the call
\* goes on to line 146, currentId still 0
FailedCallGoesTo == "l146"

\* a decrement that the early return of line 304 skips
CounterAfterEarlyReturn(counter, failed) == IF failed THEN counter ELSE counter - 1
\* line 293: the deferred atomic.AddInt32(-1) runs on every return of
\* getNewIdRange, failed or not
CounterAfterReturn(counter, failed) == counter - 1

\* lines 302-308 with the deferred decrement, then lines 112-123 / 128-139 of
\* the caller: a failure is logged and falls through to line 146 with
\* currentId = 0, a single-use grant is returned at once, a full grant goes to
\* replaceRange
ReturnFromGet(t) ==
    /\ pc[t] = "defer"
    /\ gettingIdRangeCounter' = CounterAfterReturn(gettingIdRangeCounter, resp[t].err)
    /\ IF resp[t].err
       THEN /\ pc' = [pc EXCEPT ![t] = FailedCallGoesTo]
            /\ UNCHANGED <<locals, returned, issued>>
       ELSE IF bUseOnce[t]
       THEN /\ Return(t, GenerateKey(resp[t].RangeStart, currentTime[t]),
                      resp[t].RangeStart, "once")
            /\ tmp' = tmp
       ELSE /\ pc' = [pc EXCEPT ![t] = "rep"]
            /\ UNCHANGED <<locals, returned, issued>>
    /\ UNCHANGED <<cache, usageM, env, now, authority, calls, fastLog>>

\* ---------------------------------------------------------- the mutex
\* a Lock that does not wait
LockIgnored == TRUE
\* usageM.Lock() returns only when no goroutine holds the mutex
LockFree == usageM = NoThread
\* an Unlock that is missing
UnlockForgotten(t) == t
\* the deferred usageM.Unlock()
Unlock(t) == NoThread

\* --------------------------------------------------------- replaceRange
\* line 268
IsStaleRange(rangeEnd, usageDay) ==
    Day(applyDate) = Day(usageDay) /\ currentRangeEnd >= rangeEnd

\* an increment that is lost
StoredUnchanged(v) == v
\* the value usage.currentMaxId++ stores (lines 270 and 284)
Incremented(v) == v + 1

\* lines 266-272 for a range that does not replace the segment: lock,
\* usage.currentMaxId++, return it, unlock;
\* lines 266-274 for one that does: lock, usage.currentMaxId = rangeStart
ReplaceLock(t) ==
    /\ pc[t] = "rep"
    /\ LockFree
    /\ IF IsStaleRange(resp[t].RangeEnd, currentTime[t])
       THEN /\ currentMaxId' = Incremented(currentMaxId)
            /\ currentId' = [currentId EXCEPT ![t] = Incremented(currentMaxId)]
            /\ usageM' = Unlock(t)
            /\ branch' = [branch EXCEPT ![t] = "stale"]
            /\ servedFrom' = [servedFrom EXCEPT ![t] = applyDate]
            /\ gotOver' = [gotOver EXCEPT ![t] =
                               IsOver(Incremented(currentMaxId), currentRangeEnd)]
            /\ pc' = [pc EXCEPT ![t] = "l146"]
       ELSE /\ currentMaxId' = resp[t].RangeStart
            /\ usageM' = t
            /\ pc' = [pc EXCEPT ![t] = "rep275"]
            /\ UNCHANGED <<currentId, branch, servedFrom, gotOver>>
    /\ lowCap' = lowCap
    /\ fastLog' = [base |-> currentMaxId', got |-> <<>>]
    /\ UNCHANGED <<currentRangeEnd, applyDate, gettingIdRangeCounter, env, now,
                   authority, calls, currentTime, tmp, reqStep, curCounter, bUseOnce, resp,
                   returned, issued>>

\* line 275
ReplaceEnd(t) ==
    /\ pc[t] = "rep275"
    /\ currentRangeEnd' = resp[t].RangeEnd
    /\ pc' = [pc EXCEPT ![t] = "rep276"]
    /\ UNCHANGED <<currentMaxId, applyDate, usageM, gettingIdRangeCounter, env, now,
                   authority, calls, locals, returned, issued, fastLog>>

\* lines 276-278: the date, return usage.currentMaxId, unlock
ReplaceDate(t) ==
    /\ pc[t] = "rep276"
    /\ applyDate' = currentTime[t]
    /\ currentId' = [currentId EXCEPT ![t] = currentMaxId]
    /\ usageM' = Unlock(t)
    /\ branch' = [branch EXCEPT ![t] = "install"]
    /\ servedFrom' = [servedFrom EXCEPT ![t] = currentTime[t]]
    /\ gotOver' = [gotOver EXCEPT ![t] = IsOver(currentMaxId, currentRangeEnd)]
    /\ lowCap' = lowCap
    /\ pc' = [pc EXCEPT ![t] = "l146"]
    /\ UNCHANGED <<currentMaxId, currentRangeEnd, gettingIdRangeCounter, env, now,
                   authority, calls, currentTime, tmp, reqStep, curCounter, bUseOnce, resp,
                   returned, issued, fastLog>>

\* ------------------------------------------------------ incrementAndGet
\* lines 282-285: lock, usage.currentMaxId++, return it, unlock
IncrementAndGet(t) ==
    /\ pc[t] = "inc"
    /\ LockFree
    /\ currentMaxId' = Incremented(currentMaxId)
    /\ currentId' = [currentId EXCEPT ![t] = Incremented(currentMaxId)]
    /\ usageM' = Unlock(t)
    /\ servedFrom' = [servedFrom EXCEPT ![t] = applyDate]
    /\ gotOver' = [gotOver EXCEPT ![t] = IsOver(Incremented(currentMaxId), currentRangeEnd)]
    /\ lowCap' = lowCap
    /\ fastLog' = [fastLog EXCEPT !.got = Append(@, Incremented(currentMaxId))]
    /\ pc' = [pc EXCEPT ![t] = "l146"]
    /\ UNCHANGED <<currentRangeEnd, applyDate, gettingIdRangeCounter, env, now,
                   authority, calls, currentTime, tmp, reqStep, curCounter, bUseOnce, resp,
                   branch, returned, issued>>

\* ------------------------------------------------- lines 146-155: degrade
\* a check without the test for 0
MustDegradeAboveOnly(id, rangeEnd) == id > rangeEnd
\* line 146, usage.currentRangeEnd read without the lock
MustDegrade(id, rangeEnd) == id = 0 \/ id > rangeEnd

\* a degraded call that gives the authority's failure to its caller
DegradedWithError(num, host, todayFormat, failed) ==
    IF failed THEN [err |-> TRUE, kind |-> "err", day |-> ZeroTime, suffix |-> NoSuffix]
    ELSE RandResult(num, host, todayFormat)
\* lines 150-152: the identifier a degraded call returns; failed tells whether
\* the authority call of this call failed
Degraded(num, host, todayFormat, failed) == RandResult(num, host, todayFormat)

Degrade(t) ==
    /\ pc[t] = "l146"
    /\ IF MustDegrade(currentId[t], currentRangeEnd)
       THEN \E num \in RandNums :
                Return(t, Degraded(num, hostKey, currentTime[t], resp[t].err),
                       currentId[t], branch[t])
       ELSE Return(t, GenerateKey(currentId[t], currentTime[t]), currentId[t], branch[t])
    /\ tmp' = tmp
    /\ UNCHANGED <<shared, env, now, authority, calls, fastLog>>

Next ==
    \/ Tick
    \/ \E t \in Threads : Start(t)
    \/ \E t \in Threads : CheckDay(t)
    \/ \E t \in Threads : ReadMaxId(t)
    \/ \E t \in Threads : CheckLeast(t)
    \/ \E t \in Threads : EnterGetNewIdRange(t)
    \/ \E t \in Threads : AuthorityGrants(t)
    \/ \E t \in Threads : AuthorityFails(t)
    \/ \E t \in Threads : ReturnFromGet(t)
    \/ \E t \in Threads : ReplaceLock(t)
    \/ \E t \in Threads : ReplaceEnd(t)
    \/ \E t \in Threads : ReplaceDate(t)
    \/ \E t \in Threads : IncrementAndGet(t)
    \/ \E t \in Threads : Degrade(t)

Spec == Init /\ [][Next]_vars

\* ------------------------------------------------------------ scheduling
\* the steps of goroutine t that wait for nothing
Progress(t) ==
    \/ CheckDay(t) \/ ReadMaxId(t) \/ CheckLeast(t) \/ EnterGetNewIdRange(t)
    \/ ReturnFromGet(t) \/ ReplaceEnd(t) \/ ReplaceDate(t) \/ Degrade(t)
\* the authority call of goroutine t returns
AuthorityReturns(t) == AuthorityGrants(t) \/ AuthorityFails(t)
\* usageM.Lock() of goroutine t returns
LockStep(t) == ReplaceLock(t) \/ IncrementAndGet(t)

\* A running goroutine is scheduled again and again, every authority call
\* returns, and sync.Mutex hands the lock to a goroutine that keeps waiting
\* (its starvation mode), whichever goroutines compete for it.
Fairness ==
    \A t \in Threads :
        /\ WF_vars(Progress(t) \/ AuthorityReturns(t))
        /\ SF_vars(LockStep(t))
InitLive ==
    /\ New
    /\ scenario \in LiveScenarios
    /\ now = 1
    /\ nextStart = [d \in 1..MaxClock |-> 1]
    /\ grants = 0
    /\ calls = 0
    /\ pc = [t \in Threads |-> "idle"]
    /\ LocalsInit
    /\ returned = NoReturn
    /\ issued = {}
    /\ fastLog = NoLog
    /\ probe = NoProbe
FairSpec == InitLive /\ [][Next]_vars /\ Fairness

\* ------------------------------------------------- the pure functions
MaxProbeId == 12
\* integers given to GenerateKey: one negative, the small ones, and the
\* boundaries of the six-digit width
ProbeIds == {0 - 1} \cup 0..MaxProbeId \cup {99, 100, 99999, 100000, 999999, 1000000}
\* values of rander.Intn given to randId (up to the largest integer TLC holds)
ProbeNums == {0, 1, 25, 26, 27, 675, 676, 17575, 2147483647}

InitFn ==
    /\ New
    /\ scenario \in Scenarios
    /\ now = 1
    /\ nextStart = [d \in 1..MaxClock |-> 1]
    /\ grants = 0
    /\ calls = 0
    /\ pc = [t \in Threads |-> "idle"]
    /\ LocalsInit
    /\ returned = NoReturn
    /\ issued = {}
    /\ fastLog = NoLog
    /\ probe \in {[id |-> i, num |-> n, host |-> h, enc |-> NoResult, rnd |-> NoSuffix,
                   done |-> FALSE] : i \in ProbeIds, n \in ProbeNums, h \in HostKeys}

\* GenerateKey and randId applied to the inputs drawn
ApplyFn ==
    /\ ~probe.done
    /\ probe' = [probe EXCEPT !.enc = GenerateKey(probe.id, now),
                              !.rnd = randId(probe.num, probe.host),
                              !.done = TRUE]
    /\ UNCHANGED <<shared, hostKey, scenario, now, authority, calls, pc, locals, returned, issued,
                   fastLog>>

SpecFn == InitFn /\ [][ApplyFn]_vars

\* ============================================================== claims
InFlight == {"call", "defer"}
FullStepInFlight == {t \in Threads : pc[t] \in InFlight /\ ~bUseOnce[t]}

\* C1: as long as no renewal writes the cursor, the integers incrementAndGet
\* hands out from a cursor C are C+1, C+2, ... in the order of the lock
\* acquisitions: each once, none skipped.
C1_FastPathConsecutive ==
    \A i \in 1..Len(fastLog.got) : fastLog.got[i] = fastLog.base + i
C1_Witness ==
    /\ Len(fastLog.got) >= 2
    /\ returned.branch = "fast"
    /\ returned.id = fastLog.base + 2

\* C2: a call made on a date later than the date of the cached segment is
\* never served an integer of that segment (by the fast path, or by the
\* increment replaceRange makes instead of installing the range granted for
\* the call's date).
C2_RolloverStrict ==
    (returned.branch \in {"fast", "stale"} /\ returned.result.kind = "seg")
        => ~(returned.seg < returned.day)

\* C3: while the date of the segment is the date of the writing call, no step
\* lowers the cursor or the bound.
C3_Monotonic ==
    [][\A t \in Threads :
          (pc'[t] # pc[t] /\ currentTime[t] = applyDate /\ applyDate' = applyDate)
              => (currentMaxId' >= currentMaxId /\ currentRangeEnd' >= currentRangeEnd)]_vars

\* C4: at most two full-step requests are in flight; an attempt admitted with
\* a counter above two asks for one number, returns the identifier of the
\* number granted, and no step it takes writes the cached segment.
C4_State ==
    /\ Cardinality(FullStepInFlight) <= 2
    /\ \A t \in Threads :
          (pc[t] \in InFlight /\ curCounter[t] > 2) => (bUseOnce[t] /\ reqStep[t] = 1)
    /\ \A t \in Threads :
          (pc[t] \in InFlight /\ ~bUseOnce[t]) => reqStep[t] = constIncrementStep
    /\ returned.once =>
          (returned.authErr \/ returned.result = GenerateKey(returned.id, returned.day))
C4_Step ==
    \A t \in Threads :
        (bUseOnce[t] /\ pc'[t] # pc[t]) => UNCHANGED <<currentMaxId, currentRangeEnd, applyDate>>
C4_SingleUse == []C4_State /\ [][C4_Step]_vars
C4_Witness ==
    /\ returned.once
    /\ returned.result.kind = "seg"
    /\ Cardinality(FullStepInFlight) = 2

\* C5: a call whose authority call failed returns no error and an identifier
\* whose suffix begins with the marker letter.
C5_FailureDegrades ==
    returned.authErr =>
        (~returned.result.err /\ returned.result.suffix # <<>>
            /\ Head(returned.result.suffix) = ChY)
C5_Witness ==
    /\ returned.authErr
    /\ returned.result.kind = "rand"
    /\ Head(returned.result.suffix) = ChY

\* C6 as stated: a call that asked for a renewal because the segment of its
\* date was nearly used up, and whose renewal failed, is served from the cached
\* segment exactly when that segment still has integers left.
C6_ServedFromCache ==
    (returned.authErr /\ returned.branch = "low")
        => (returned.cap <=> returned.result.kind = "seg")
\* C6 as amended: a failed renewal of the near-exhaustion branch always
\* degrades to a random identifier, with or without capacity left.
C6_AlwaysDegrades ==
    (returned.authErr /\ returned.branch = "low")
        => (returned.result.kind = "rand" /\ returned.id = 0)
C6_Witness ==
    /\ returned.authErr
    /\ returned.branch = "low"
    /\ returned.cap
    /\ returned.result.kind = "rand"

\* C7: a call returns an error only if the encoding of its integer met a
\* character outside the table; a failed authority call never gives an error.
C7_OnlyEncodingErrors ==
    /\ returned.result.err => ~MapKey(Sprintf06d(returned.id))[1]
    /\ returned.authErr => ~returned.result.err
C7_Witness ==
    /\ returned.authErr
    /\ returned.branch = "day"
    /\ ~returned.result.err

\* C8: a goroutine inside getNewIdRange does not hold the mutex.
C8_NoLockAcrossCall ==
    \A t \in Threads : pc[t] \in {"get", "call", "defer"} => usageM # t
C8_Witness ==
    \E t \in Threads : pc[t] = "call" /\ usageM \notin {NoThread, t}

C10_MarkerSeparates ==
    probe.done =>
        /\ Head(probe.rnd) = ChY
        /\ \A i \in DOMAIN probe.enc.suffix : probe.enc.suffix[i] # ChY
        /\ probe.enc.suffix # probe.rnd
C10_Witness ==
    /\ probe.done
    /\ ~probe.enc.err
    /\ Len(probe.enc.suffix) = 6
    /\ Len(probe.rnd) = 12

\* ------------------------------------------------------------------ C11
\* goroutine t is at the comparison of line 124 with the value of the cursor
\* it read still current, the segment is of its date, nearly used up but not
\* used up, and the renewal of another goroutine is outstanding
ArrivesWhilePending(t) ==
    /\ pc[t] = "l124b"
    /\ tmp[t] = currentMaxId
    /\ applyDate = currentTime[t]
    /\ currentMaxId < currentRangeEnd
    /\ currentMaxId + LeastAvailableIdNum > currentRangeEnd
    /\ \E u \in Threads \ {t} : pc[u] \in {"call", "defer"} /\ branch[u] = "low"

C11_PendingStep ==
    \A t \in Threads :
        (ArrivesWhilePending(t) /\ pc'[t] # pc[t])
            => (pc'[t] = "get" /\ currentMaxId' = currentMaxId)
InverseKeyMap(letter) == CHOOSE ch \in DOMAIN keyMap : keyMap[ch] = letter
Decode(suffix) == [i \in 1..Len(suffix) |-> InverseKeyMap(suffix[i])]

\* the only call made so far on the fresh cache has returned, and the
\* authority granted its request
FirstCallReturned == calls = 1 /\ returned.by # NoThread /\ ~returned.authErr
FirstCallInstalled ==
    /\ grants = 1
    /\ returned.id = 1
    /\ returned.result.kind = "seg"
    /\ currentMaxId = 1
    /\ currentRangeEnd = constIncrementStep
    /\ applyDate = returned.day

\* C12 as stated: the first call on a fresh cache makes one renewal request,
\* is served 1, leaves cursor 1 and the granted bound, and its suffix decodes
\* to the five characters 00001.
C12_FirstCallFiveDigits ==
    FirstCallReturned =>
        (FirstCallInstalled /\ Decode(returned.result.suffix) = <<Ch0, Ch0, Ch0, Ch0, Ch0 + 1>>)
\* C12 as amended: the same, the suffix decoding to the six characters 000001.
C12_FirstCallSixDigits ==
    FirstCallReturned =>
        (FirstCallInstalled
            /\ Decode(returned.result.suffix) = <<Ch0, Ch0, Ch0, Ch0, Ch0, Ch0 + 1>>)
C12_Witness ==
    /\ FirstCallReturned
    /\ returned.day = 1
    /\ returned.branch = "install"
    /\ returned.result.suffix = <<ChA, ChA, ChA, ChA, ChA, 67>>

\* ------------------------------------------------------------------ C13
\* the width of the pad of line 160
PadWidth == 6
KeyLetters == {keyMap[ch] : ch \in DOMAIN keyMap}

\* C13: every suffix the encoder produces is made of letters of the table and
\* has the length of the pad width, whatever the integer.
C13_FixedWidth ==
    (probe.done /\ ~probe.enc.err) =>
        /\ \A i \in DOMAIN probe.enc.suffix : probe.enc.suffix[i] \in KeyLetters
        /\ Len(probe.enc.suffix) = PadWidth

\* ------------------------------------------------------------------ C14
\* replaceRange of goroutine t begins / ends with this step
ReplaceBegins(t) == pc[t] = "rep" /\ pc'[t] # "rep"
ReplaceInstalled(t) == pc[t] = "rep276" /\ pc'[t] = "l146"

\* C14: replaceRange increments the cursor and leaves bound and date alone
\* exactly when the date of the cache is the date of the request and the
\* granted end is not above the cached bound; in every other case it writes
\* cursor, bound and date from the grant and returns the granted start.
C14_ReplaceRange ==
    [][\A t \in Threads :
          /\ (ReplaceBegins(t) /\ applyDate = currentTime[t]
                               /\ resp[t].RangeEnd <= currentRangeEnd)
                => /\ currentMaxId' = currentMaxId + 1
                   /\ currentId'[t] = currentMaxId + 1
                   /\ UNCHANGED <<currentRangeEnd, applyDate>>
                   /\ pc'[t] = "l146"
          /\ (ReplaceBegins(t) /\ ~(applyDate = currentTime[t]
                                    /\ resp[t].RangeEnd <= currentRangeEnd))
                => /\ currentMaxId' = resp[t].RangeStart
                   /\ pc'[t] = "rep275"
          /\ ReplaceInstalled(t)
                => /\ currentMaxId' = resp[t].RangeStart
                   /\ currentRangeEnd' = resp[t].RangeEnd
                   /\ applyDate' = currentTime[t]
                   /\ currentId'[t] = resp[t].RangeStart]_vars

\* ------------------------------------------------------------------ C15
\* goroutine t takes a step of a renewal attempt not yet answered, or a step
\* after the authority call of its call failed
StepOfFailingCall(t) ==
    /\ pc'[t] # pc[t]
    /\ (pc[t] \in {"get", "call"} /\ resp'[t].err) \/ resp[t].err

\* C15: a call whose authority request failed writes neither cursor, bound nor
\* date, in the day branch and in the near-exhaustion branch: it never enters
\* replaceRange or incrementAndGet, and its integer stays 0.
C15_FailureState ==
    returned.authErr => (returned.branch \in {"day", "low"} /\ returned.id = 0)
C15_FailureStep ==
    \A t \in Threads :
        StepOfFailingCall(t) => UNCHANGED <<currentMaxId, currentRangeEnd, applyDate>>
C15_FailureWritesNothing == []C15_FailureState /\ [][C15_FailureStep]_vars
C15_Witness ==
    /\ returned.authErr
    /\ returned.branch = "low"
    /\ applyDate # ZeroTime
    /\ currentMaxId < currentRangeEnd

\* ------------------------------------------------------------------ C16
\* C16: a call whose integer, obtained from incrementAndGet or replaceRange,
\* was 0 or above the bound at the moment it was obtained returns a fallback
\* identifier, whatever other goroutines install before its test of line 146.
C16_OverBoundDegrades ==
    (returned.over /\ returned.branch \in {"fast", "stale", "install"})
        => returned.result.kind = "rand"

\* ------------------------------------------------------------------ C17
\* the goroutines between the atomic increment and the deferred decrement
InGetNewIdRange == {t \in Threads : pc[t] \in {"call", "defer"}}

\* C17: the counter is the number of goroutines between the increment and
\* the decrement of getNewIdRange, after successful and after failed authority
\* calls alike, and it is 0 when no call is in progress.
C17_CounterCountsCallers ==
    /\ gettingIdRangeCounter = Cardinality(InGetNewIdRange)
    /\ (\A t \in Threads : pc[t] = "idle") => gettingIdRangeCounter = 0
C17_Witness ==
    /\ \A t \in Threads : pc[t] = "idle"
    /\ gettingIdRangeCounter = 0
    /\ returned.authErr
    /\ grants >= 1
    /\ calls >= 3

\* ------------------------------------------------------------------ C18
\* the mutex is held only between the first and the last write of an install
LockHeldInsideOnly ==
    \A t \in Threads : usageM = t => pc[t] \in {"rep275", "rep276"}

\* C18: with fair scheduling and an authority that answers, every call
\* returns: the counter blocks nobody, the mutex is released on every path of
\* incrementAndGet and replaceRange, and no interleaving deadlocks.
C18_EveryCallReturns ==
    /\ []LockHeldInsideOnly
    /\ \A t \in Threads : (pc[t] # "idle") ~> (pc[t] = "idle")
C18_Witness ==
    \E t \in Threads :
        /\ pc[t] \in {"rep", "inc"}
        /\ usageM \notin {NoThread, t}

\* ------------------------------------------------------------------ C19
\* C19: with an authority that never grants a number twice for a day, no call
\* returns a segment-derived identifier that an earlier call returned.
C19_NoDuplicate == ~returned.dup

\* ------------------------------------------------------------------ C20
\* goroutine t enters getNewIdRange and is downgraded to a single number
Downgraded(t) == pc[t] = "get" /\ pc'[t] = "call" /\ bUseOnce'[t]

\* C20: when an attempt is downgraded to a single-use request, a full-step
\* request of another goroutine is in flight.
C20_FullStepPending ==
    [][\A t \in Threads :
          Downgraded(t) => \E u \in Threads \ {t} : u \in FullStepInFlight]_vars

====
